---- MODULE Spec2Model ----
(***************************************************************************)
(* TV-show record parsing (fp-study, chapter 6): the Option variant        *)
(* (src/chapter6/main.ts) and the Either variant (src/unnamed/part_001)    *)
(* of extractTitle / extractYearStart / extractYearEnd / extractSingleYear *)
(* / parseShow / addOrResign / parseShows, and sortShows.                  *)
(*                                                                         *)
(* A raw string is a sequence of one-character strings; indices returned   *)
(* by IndexOf are 0-based as in JavaScript.                                *)
(***************************************************************************)
EXTENDS Integers, Sequences, FiniteSets

VARIABLES rawShows, parsedO, parsedE, callsO, callsE, accO, accE, nO, nE,
          shows, sorted, pcSort

vars == <<rawShows, parsedO, parsedE, callsO, callsE, accO, accE, nO, nE,
          shows, sorted, pcSort>>

parseVars == <<rawShows, parsedO, parsedE, callsO, callsE, accO, accE, nO, nE>>

sortVars == <<shows, sorted, pcSort>>

(***************************************************************************)
(* Bounds of the model.                                                    *)
(***************************************************************************)
\* longest raw string enumerated character by character
MaxLen == 4
\* longest title T of the shaped inputs "<T> (<S>-<E>)" and "<T> (<Y>)"
MaxTitle == 2
\* most digits of a year S, E, Y of the shaped inputs
MaxDigits == 2
\* longest input sequence of parseShows
MaxRaws == 3
\* longest input sequence of sortShows
MaxShows == 3
\* largest year of a TvShow handed to sortShows
MaxYear == 1

Alphabet == {"A", " ", "(", ")", "-", "1", "2"}

Digits == {"1", "2"}

SeqsUpTo(S, n) == UNION {[1..m -> S] : m \in 0..n}

(***************************************************************************)
(* JavaScript string primitives used by the extractors.                    *)
(***************************************************************************)
\* String.prototype.indexOf: 0-based index of the first occurrence, or -1
IndexOf(s, c) ==
    IF \E i \in 1..Len(s) : s[i] = c
    THEN (CHOOSE i \in 1..Len(s) : s[i] = c /\ \A j \in 1..(i - 1) : s[j] # c) - 1
    ELSE -1

Max(a, b) == IF a >= b THEN a ELSE b

Min(a, b) == IF a <= b THEN a ELSE b

\* String.prototype.slice(from, to): negative indices count from the end,
\* indices are clamped to the length, an empty range gives the empty string
Slice(s, from, to) ==
    LET len == Len(s)
        f == IF from < 0 THEN Max(len + from, 0) ELSE Min(from, len)
        t == IF to < 0 THEN Max(len + to, 0) ELSE Min(to, len)
    IN IF f >= t THEN <<>> ELSE SubSeq(s, f + 1, t)

\* String.prototype.trim: drops leading and trailing white space
Trim(s) ==
    LET inked == {i \in 1..Len(s) : s[i] # " "}
    IN IF inked = {} THEN <<>>
       ELSE SubSeq(s, CHOOSE i \in inked : \A j \in inked : i <= j,
                      CHOOSE i \in inked : \A j \in inked : i >= j)

Num(v) == [nan |-> FALSE, val |-> v]

NaN == [nan |-> TRUE, val |-> 0]

DigitValue(c) == IF c = "1" THEN 1 ELSE 2

RECURSIVE DecimalValue(_)
DecimalValue(ds) ==
    IF ds = <<>> THEN 0
    ELSE DecimalValue(SubSeq(ds, 1, Len(ds) - 1)) * 10 + DigitValue(ds[Len(ds)])

IsDigits(s) == s # <<>> /\ \A i \in 1..Len(s) : s[i] \in Digits

\* Number(str): white space is stripped; the empty string is 0; an optionally
\* signed run of digits is its value; anything else is NaN.  It never throws.
Number(str) ==
    LET t == Trim(str)
    IN IF t = <<>> THEN Num(0)
       ELSE IF IsDigits(t) THEN Num(DecimalValue(t))
       ELSE IF t[1] = "-" /\ IsDigits(Tail(t)) THEN Num(0 - DecimalValue(Tail(t)))
       ELSE NaN

(***************************************************************************)
(* fp-ts Option and Either values.                                         *)
(***************************************************************************)
none == [tag |-> "none"]

some(v) == [tag |-> "some", value |-> v]

left(e) == [tag |-> "left", left |-> e]

right(v) == [tag |-> "right", right |-> v]

isSome(o) == o.tag = "some"

isRight(e) == e.tag = "right"

\* the template literal `${msg}${rawShow}` of a diagnostic
Diag(msg, rawShow) == [msg |-> msg, raw |-> rawShow]

TvShow(title, start, end) == [title |-> title, start |-> start, end |-> end]

(***************************************************************************)
(* Field extractors, Option variant (src/chapter6/main.ts).                *)
(***************************************************************************)
extractTitleO(rawShow) ==
    LET bracketOpen == IndexOf(rawShow, "(")
    IN IF bracketOpen > 0
       THEN some(Trim(Slice(rawShow, 0, bracketOpen - 1)))
       ELSE none

\* the first bind of extractYearStart: the slice handed to Number
yearStartStrO(rawShow) ==
    LET bracketOpen == IndexOf(rawShow, "(")
        dash == IndexOf(rawShow, "-")
    IN IF bracketOpen # -1 /\ dash # -1
       THEN some(Slice(rawShow, bracketOpen + 1, dash))
       ELSE none

extractYearStartO(rawShow) ==
    LET yearStr == yearStartStrO(rawShow)
    IN IF isSome(yearStr) THEN some(Number(yearStr.value)) ELSE none

yearEndStrO(rawShow) ==
    LET bracketClose == IndexOf(rawShow, ")")
        dash == IndexOf(rawShow, "-")
    IN IF dash # -1 /\ bracketClose # -1
       THEN some(Slice(rawShow, dash + 1, bracketClose))
       ELSE none

extractYearEndO(rawShow) ==
    LET yearStr == yearEndStrO(rawShow)
    IN IF isSome(yearStr) THEN some(Number(yearStr.value)) ELSE none

\* mutant: the closing bracket is required one character further
singleYearStrStrictO(rawShow) ==
    LET dash == IndexOf(rawShow, "-")
        bracketOpen == IndexOf(rawShow, "(")
        bracketClose == IndexOf(rawShow, ")")
    IN IF dash = -1 /\ bracketOpen # -1 /\ bracketClose > bracketOpen + 2
       THEN some(Slice(rawShow, bracketOpen + 1, bracketClose))
       ELSE none

singleYearStrO(rawShow) ==
    LET dash == IndexOf(rawShow, "-")
        bracketOpen == IndexOf(rawShow, "(")
        bracketClose == IndexOf(rawShow, ")")
    IN IF dash = -1 /\ bracketOpen # -1 /\ bracketClose > bracketOpen + 1
       THEN some(Slice(rawShow, bracketOpen + 1, bracketClose))
       ELSE none

extractSingleYearO(rawShow) ==
    LET yearStr == singleYearStrO(rawShow)
    IN IF isSome(yearStr) THEN some(Number(yearStr.value)) ELSE none

(***************************************************************************)
(* Field extractors, Either variant (src/unnamed/part_001).                *)
(***************************************************************************)
extractTitleE(rawShow) ==
    LET bracketOpen == IndexOf(rawShow, "(")
    IN IF bracketOpen > 0
       THEN right(Trim(Slice(rawShow, 0, bracketOpen - 1)))
       ELSE left(Diag("Cannot extract title from: ", rawShow))

yearStartStrE(rawShow) ==
    LET bracketOpen == IndexOf(rawShow, "(")
        dash == IndexOf(rawShow, "-")
    IN IF bracketOpen # -1 /\ dash > bracketOpen + 1
       THEN right(Slice(rawShow, bracketOpen + 1, dash))
       ELSE left(Diag("Cannot extract year start from: ", rawShow))

extractYearStartE(rawShow) ==
    LET yearStr == yearStartStrE(rawShow)
    IN IF isRight(yearStr) THEN right(Number(yearStr.right)) ELSE yearStr

\* mutant: the slice starts at the hyphen instead of behind it
yearEndStrFromDashE(rawShow) ==
    LET dash == IndexOf(rawShow, "-")
        bracketClose == IndexOf(rawShow, ")")
    IN IF dash # -1 /\ bracketClose > dash + 1
       THEN right(Slice(rawShow, dash, bracketClose))
       ELSE left(Diag("Cannot extract year end from: ", rawShow))

yearEndStrE(rawShow) ==
    LET dash == IndexOf(rawShow, "-")
        bracketClose == IndexOf(rawShow, ")")
    IN IF dash # -1 /\ bracketClose > dash + 1
       THEN right(Slice(rawShow, dash + 1, bracketClose))
       ELSE left(Diag("Cannot extract year end from: ", rawShow))

extractYearEndE(rawShow) ==
    LET yearStr == yearEndStrE(rawShow)
    IN IF isRight(yearStr) THEN right(Number(yearStr.right)) ELSE yearStr

singleYearStrE(rawShow) ==
    LET dash == IndexOf(rawShow, "-")
        bracketOpen == IndexOf(rawShow, "(")
        bracketClose == IndexOf(rawShow, ")")
    IN IF dash = -1 /\ bracketOpen # -1 /\ bracketClose > bracketOpen + 1
       THEN right(Slice(rawShow, bracketOpen + 1, bracketClose))
       ELSE left(Diag("Cannot extract single year from: ", rawShow))

extractSingleYearE(rawShow) ==
    LET yearStr == singleYearStrE(rawShow)
    IN IF isRight(yearStr) THEN right(Number(yearStr.right)) ELSE yearStr

(***************************************************************************)
(* An evaluation is an outcome together with the extractor calls made to   *)
(* compute it, in call order.                                              *)
(***************************************************************************)
Eval(out, calls) == [out |-> out, calls |-> calls]

\* O.orElse(() => secondary): the thunk runs only when the primary is none
orElseO(primary, secondary) ==
    IF isSome(primary.out) THEN primary
    ELSE Eval(secondary.out, primary.calls \o secondary.calls)

\* mutant: the secondary is computed before the primary is looked at
orElseEagerE(primary, secondary) ==
    IF isRight(primary.out) THEN Eval(primary.out, primary.calls \o secondary.calls)
    ELSE Eval(secondary.out, primary.calls \o secondary.calls)

\* E.orElse(() => secondary): the thunk runs only when the primary is left,
\* and its outcome replaces the primary's
orElseE(primary, secondary) ==
    IF isRight(primary.out) THEN primary
    ELSE Eval(secondary.out, primary.calls \o secondary.calls)

resolveStartO(rawShow) ==
    orElseO(Eval(extractYearStartO(rawShow), <<"extractYearStart">>),
            Eval(extractSingleYearO(rawShow), <<"extractSingleYear">>))

resolveEndO(rawShow) ==
    orElseO(Eval(extractYearEndO(rawShow), <<"extractYearEnd">>),
            Eval(extractSingleYearO(rawShow), <<"extractSingleYear">>))

resolveStartE(rawShow) ==
    orElseE(Eval(extractYearStartE(rawShow), <<"extractYearStart">>),
            Eval(extractSingleYearE(rawShow), <<"extractSingleYear">>))

resolveEndE(rawShow) ==
    orElseE(Eval(extractYearEndE(rawShow), <<"extractYearEnd">>),
            Eval(extractSingleYearE(rawShow), <<"extractSingleYear">>))

\* O.Do, O.bind title, O.bind start, O.bind end, O.map: a bind runs its
\* function only when everything before it is some
parseShowO(rawShow) ==
    LET title == Eval(extractTitleO(rawShow), <<"extractTitle">>)
    IN IF ~isSome(title.out) THEN Eval(none, title.calls)
       ELSE LET start == resolveStartO(rawShow)
            IN IF ~isSome(start.out) THEN Eval(none, title.calls \o start.calls)
               ELSE LET end == resolveEndO(rawShow)
                        calls == title.calls \o start.calls \o end.calls
                    IN IF ~isSome(end.out) THEN Eval(none, calls)
                       ELSE Eval(some(TvShow(title.out.value, start.out.value,
                                             end.out.value)), calls)

\* mutant: the three fields are computed first and combined afterwards
parseShowAllFieldsE(rawShow) ==
    LET title == Eval(extractTitleE(rawShow), <<"extractTitle">>)
        start == resolveStartE(rawShow)
        end == resolveEndE(rawShow)
        calls == title.calls \o start.calls \o end.calls
    IN IF ~isRight(title.out) THEN Eval(title.out, calls)
       ELSE IF ~isRight(start.out) THEN Eval(start.out, calls)
       ELSE IF ~isRight(end.out) THEN Eval(end.out, calls)
       ELSE Eval(right(TvShow(title.out.right, start.out.right, end.out.right)),
                 calls)

\* E.Do, E.bind title, E.bind start, E.bind end: a bind runs its function
\* only when everything before it is right, and a left is passed on as it is
parseShowE(rawShow) ==
    LET title == Eval(extractTitleE(rawShow), <<"extractTitle">>)
    IN IF ~isRight(title.out) THEN title
       ELSE LET start == resolveStartE(rawShow)
            IN IF ~isRight(start.out) THEN Eval(start.out, title.calls \o start.calls)
               ELSE LET end == resolveEndE(rawShow)
                        calls == title.calls \o start.calls \o end.calls
                    IN IF ~isRight(end.out) THEN Eval(end.out, calls)
                       ELSE Eval(right(TvShow(title.out.right, start.out.right,
                                              end.out.right)), calls)

(***************************************************************************)
(* All-or-nothing aggregation.                                             *)
(***************************************************************************)
\* mutant: the rejected lenient policy, a failing record is skipped
addOrSkipO(parsedShows, newParsedShow) ==
    IF ~isSome(parsedShows) THEN none
    ELSE IF ~isSome(newParsedShow) THEN parsedShows
    ELSE some(Append(parsedShows.value, newParsedShow.value))

\* O.Do, O.bind shows, O.bind parsedShow, O.map concat
addOrResignO(parsedShows, newParsedShow) ==
    IF ~isSome(parsedShows) THEN none
    ELSE IF ~isSome(newParsedShow) THEN none
    ELSE some(Append(parsedShows.value, newParsedShow.value))

\* mutant: the two binds in the other order, the new record is looked at first
addOrResignNewFirstE(parsedShows, newParsedShow) ==
    IF ~isRight(newParsedShow) THEN newParsedShow
    ELSE IF ~isRight(parsedShows) THEN parsedShows
    ELSE right(Append(parsedShows.right, newParsedShow.right))

\* E.Do, E.bind shows, E.bind parsedShow, E.map concat
addOrResignE(parsedShows, newParsedShow) ==
    IF ~isRight(parsedShows) THEN parsedShows
    ELSE IF ~isRight(newParsedShow) THEN newParsedShow
    ELSE right(Append(parsedShows.right, newParsedShow.right))

initialO == some(<<>>)

initialE == right(<<>>)

(***************************************************************************)
(* Derived-key sorter (src/chapter6/main.ts).                              *)
(***************************************************************************)
\* the key of byPeriod: contramap(tvShow => tvShow.end - tvShow.start)
period(tvShow) == tvShow.end - tvShow.start

\* mutant: the operands of the comparison are swapped
byPeriodSwapped(first, second) ==
    IF period(second) < period(first) THEN -1
    ELSE IF period(second) > period(first) THEN 1
    ELSE 0

\* N.Ord.compare on the keys: -1, 0 or 1
byPeriod(first, second) ==
    IF period(first) < period(second) THEN -1
    ELSE IF period(first) > period(second) THEN 1
    ELSE 0

\* one insertion of a stable sort: x goes behind every element that does not
\* compare greater than it
RECURSIVE InsertBy(_, _)
InsertBy(x, as) ==
    IF as = <<>> THEN <<x>>
    ELSE IF byPeriod(Head(as), x) <= 0 THEN <<Head(as)>> \o InsertBy(x, Tail(as))
    ELSE <<x>> \o as

\* mutant: a sort that is not stable, an element goes before its equals
RECURSIVE InsertBeforeEquals(_, _)
InsertBeforeEquals(x, as) ==
    IF as = <<>> THEN <<x>>
    ELSE IF byPeriod(Head(as), x) < 0
         THEN <<Head(as)>> \o InsertBeforeEquals(x, Tail(as))
    ELSE <<x>> \o as

RECURSIVE sortByUnstable(_)
sortByUnstable(as) ==
    IF as = <<>> THEN <<>>
    ELSE InsertBeforeEquals(as[Len(as)], sortByUnstable(SubSeq(as, 1, Len(as) - 1)))

\* the stable ascending sort, by insertion from the left
RECURSIVE StableSort(_)
StableSort(as) ==
    IF as = <<>> THEN <<>>
    ELSE InsertBy(as[Len(as)], StableSort(SubSeq(as, 1, Len(as) - 1)))

\* A.sortBy([byPeriod]): as.slice().sort(compare), ascending and stable
sortBy(as) == StableSort(as)

\* A.reverse: a reversed copy
reverse(as) == [i \in 1..Len(as) |-> as[Len(as) + 1 - i]]

(***************************************************************************)
(* Inputs.                                                                 *)
(***************************************************************************)
Strings(n) == SeqsUpTo(Alphabet, n)

\* non-empty strings that trim() leaves as they are
Titles == {t \in Strings(MaxTitle) : t # <<>> /\ Trim(t) = t}

YearStrs == {y \in SeqsUpTo(Digits, MaxDigits) : y # <<>>}

\* "<T> (<S>-<E>)"
RangeShape(T, S, E) == T \o <<" ", "(">> \o S \o <<"-">> \o E \o <<")">>

\* "<T> (<Y>)"
SingleShape(T, Y) == T \o <<" ", "(">> \o Y \o <<")">>

RawStrings ==
    Strings(MaxLen)
    \cup {RangeShape(T, S, E) : T \in Titles, S \in YearStrs, E \in YearStrs}
    \cup {SingleShape(T, Y) : T \in Titles, Y \in YearStrs}

\* the sample rawShows of both programs over the model's alphabet: two ranges,
\* a single year, a record without brackets, one without a title and one
\* without an end year
SampleShows ==
    { <<"A", " ", "(", "1", "-", "2", ")">>,
      <<"A", "A", " ", "(", "2", "-", "2", ")">>,
      <<"A", " ", "(", "2", ")">>,
      <<"A", " ", "1", "-", "2">>,
      <<"(", "1", ")">>,
      <<"A", " ", "(", "1", "-", ")">> }

TvShows == {TvShow(t, s, e) : t \in {"a", "b"}, s \in 0..MaxYear, e \in 0..MaxYear}

(***************************************************************************)
(* parseShows: pipe(rawShows, A.map(parseShow), A.reduce(initial,          *)
(* addOrResign)), for the Option program and for the Either program, both  *)
(* run on the same rawShows.                                               *)
(***************************************************************************)
ParseIdle ==
    /\ rawShows = <<>>
    /\ parsedO = <<>> /\ parsedE = <<>>
    /\ callsO = <<>> /\ callsE = <<>>
    /\ accO = initialO /\ accE = initialE
    /\ nO = 0 /\ nE = 0

SortIdle == shows = <<>> /\ sorted = <<>> /\ pcSort = "idle"

Init ==
    /\ rawShows \in {<<r>> : r \in RawStrings} \cup SeqsUpTo(SampleShows, MaxRaws)
    /\ parsedO = <<>> /\ parsedE = <<>>
    /\ callsO = <<>> /\ callsE = <<>>
    /\ accO = initialO /\ accE = initialE
    /\ nO = 0 /\ nE = 0
    /\ SortIdle

\* A.map(parseShow), Option program: the next element is parsed
MapO ==
    /\ Len(parsedO) < Len(rawShows)
    /\ LET ev == parseShowO(rawShows[Len(parsedO) + 1])
       IN /\ parsedO' = Append(parsedO, ev.out)
          /\ callsO' = Append(callsO, ev.calls)
    /\ UNCHANGED <<rawShows, parsedE, callsE, accO, accE, nO, nE, sortVars>>

\* A.reduce(initial, addOrResign), Option program: one step of the fold
ReduceO ==
    /\ Len(parsedO) = Len(rawShows)
    /\ nO < Len(parsedO)
    /\ accO' = addOrResignO(accO, parsedO[nO + 1])
    /\ nO' = nO + 1
    /\ UNCHANGED <<rawShows, parsedO, parsedE, callsO, callsE, accE, nE, sortVars>>

\* A.map(parseShow), Either program
MapE ==
    /\ Len(parsedE) < Len(rawShows)
    /\ LET ev == parseShowE(rawShows[Len(parsedE) + 1])
       IN /\ parsedE' = Append(parsedE, ev.out)
          /\ callsE' = Append(callsE, ev.calls)
    /\ UNCHANGED <<rawShows, parsedO, callsO, accO, accE, nO, nE, sortVars>>

\* A.reduce(initial, addOrResign), Either program
ReduceE ==
    /\ Len(parsedE) = Len(rawShows)
    /\ nE < Len(parsedE)
    /\ accE' = addOrResignE(accE, parsedE[nE + 1])
    /\ nE' = nE + 1
    /\ UNCHANGED <<rawShows, parsedO, parsedE, callsO, callsE, accO, nO, sortVars>>

Next == MapO \/ ReduceO \/ MapE \/ ReduceE

Spec == Init /\ [][Next]_vars

\* parseShows has returned
DoneO == nO = Len(rawShows)

DoneE == nE = Len(rawShows)

(***************************************************************************)
(* sortShows on a sequence of TvShow records.                              *)
(***************************************************************************)
InitSort ==
    /\ ParseIdle
    /\ shows \in SeqsUpTo(TvShows, MaxShows)
    /\ sorted = shows
    /\ pcSort = "sortBy"

SortBy ==
    /\ pcSort = "sortBy"
    /\ sorted' = sortBy(shows)
    /\ pcSort' = "reverse"
    /\ UNCHANGED <<shows, parseVars>>

Reverse ==
    /\ pcSort = "reverse"
    /\ sorted' = reverse(sorted)
    /\ pcSort' = "done"
    /\ UNCHANGED <<shows, parseVars>>

NextSort == SortBy \/ Reverse

SpecSort == InitSort /\ [][NextSort]_vars

(***************************************************************************)
(* Properties.                                                             *)
(***************************************************************************)
Raws == 1..Len(rawShows)

FailsO(rawShow) == ~isSome(parseShowO(rawShow).out)

FailsE(rawShow) == ~isRight(parseShowE(rawShow).out)

\* C1: all-or-nothing aggregation: when parseShows has returned, in the Option
\* and in the Either program, the result is a success exactly when parseShow
\* succeeds on every element of rawShows, and a success holds exactly the
\* record of each element, in input order (the empty input gives the empty
\* sequence); one failing element makes the whole result a failure.
C1_AllOrNothing ==
    /\ DoneO =>
         /\ isSome(accO) <=> \A i \in Raws : ~FailsO(rawShows[i])
         /\ isSome(accO) =>
              accO.value = [i \in Raws |-> parseShowO(rawShows[i]).out.value]
    /\ DoneE =>
         /\ isRight(accE) <=> \A i \in Raws : ~FailsE(rawShows[i])
         /\ isRight(accE) =>
              accE.right = [i \in Raws |-> parseShowE(rawShows[i]).out.right]

\* both programs have folded three records, a success first and a failure
\* among them, and both results are failures
C1_Witness ==
    /\ Len(rawShows) = 3 /\ DoneO /\ DoneE
    /\ ~FailsO(rawShows[1]) /\ ~FailsE(rawShows[1])
    /\ \E i \in Raws : FailsO(rawShows[i]) /\ FailsE(rawShows[i])
    /\ ~FailsO(rawShows[3]) /\ ~FailsE(rawShows[3])
    /\ accO = none /\ ~isRight(accE)

HasDelimiter(T) == \E i \in 1..Len(T) : T[i] \in {"(", ")", "-"}

\* the records {title: T, start: S, end: E} of every reading of rawShow as
\* "<T> (<S>-<E>)" with T non-empty and trimmed and S, E runs of digits
RangeReadings(rawShow) ==
    { TvShow(SubSeq(rawShow, 1, n),
             Num(DecimalValue(SubSeq(rawShow, n + 3, d - 1))),
             Num(DecimalValue(SubSeq(rawShow, d + 1, Len(rawShow) - 1)))) :
        <<n, d>> \in
          { nd \in (1..Len(rawShow)) \X (1..Len(rawShow)) :
              /\ nd[1] + 3 < nd[2] /\ nd[2] + 1 < Len(rawShow)
              /\ Trim(SubSeq(rawShow, 1, nd[1])) = SubSeq(rawShow, 1, nd[1])
              /\ rawShow[nd[1] + 1] = " " /\ rawShow[nd[1] + 2] = "("
              /\ IsDigits(SubSeq(rawShow, nd[1] + 3, nd[2] - 1))
              /\ rawShow[nd[2]] = "-"
              /\ IsDigits(SubSeq(rawShow, nd[2] + 1, Len(rawShow) - 1))
              /\ rawShow[Len(rawShow)] = ")" } }

\* C2 as stated: every raw string "<T> (<S>-<E>)" with numeric S, E and
\* non-empty trimmed T, whatever characters T holds, is parsed to
\* {title: T, start: S, end: E} by the Option and by the Either parseShow.
C2_AnyTitle ==
    /\ \A i \in 1..Len(parsedO) : \A show \in RangeReadings(rawShows[i]) :
         parsedO[i] = some(show)
    /\ \A i \in 1..Len(parsedE) : \A show \in RangeReadings(rawShows[i]) :
         parsedE[i] = right(show)

\* C2 amended: every raw string "<T> (<S>-<E>)" with numeric S, E and non-empty
\* trimmed T that holds none of '(', ')' and '-' is parsed to
\* {title: T, start: S, end: E} by the Option and by the Either parseShow.
C2_PlainTitle ==
    /\ \A i \in 1..Len(parsedO) : \A show \in RangeReadings(rawShows[i]) :
         ~HasDelimiter(show.title) => parsedO[i] = some(show)
    /\ \A i \in 1..Len(parsedE) : \A show \in RangeReadings(rawShows[i]) :
         ~HasDelimiter(show.title) => parsedE[i] = right(show)

\* both programs have parsed a range with a two-character title and
\* different two-digit years
C2_Witness ==
    /\ Len(parsedO) >= 1 /\ Len(parsedE) >= 1
    /\ \E show \in RangeReadings(rawShows[1]) :
         /\ ~HasDelimiter(show.title) /\ Len(show.title) = 2
         /\ show.start.val = 12 /\ show.end.val = 21

\* the pairs <<T, Y>> of every reading of a hyphen-free rawShow as "<T> (<Y>)"
\* with T non-empty and trimmed and Y a run of digits
SingleReadings(rawShow) ==
    { <<SubSeq(rawShow, 1, n), Num(DecimalValue(SubSeq(rawShow, n + 3, Len(rawShow) - 1)))>> :
        n \in { m \in 1..Len(rawShow) :
                  /\ m + 3 < Len(rawShow)
                  /\ IndexOf(rawShow, "-") = -1
                  /\ Trim(SubSeq(rawShow, 1, m)) = SubSeq(rawShow, 1, m)
                  /\ rawShow[m + 1] = " " /\ rawShow[m + 2] = "("
                  /\ IsDigits(SubSeq(rawShow, m + 3, Len(rawShow) - 1))
                  /\ rawShow[Len(rawShow)] = ")" } }

SingleYearCalls ==
    <<"extractTitle", "extractYearStart", "extractSingleYear",
      "extractYearEnd", "extractSingleYear">>

\* C3 as stated: every raw string "<T> (<Y>)" without a hyphen is parsed, by
\* the Option and by the Either parseShow, to a record with start = end = Y,
\* both years coming from extractSingleYear after the range extractor failed.
C3_AnyTitle ==
    /\ \A i \in 1..Len(parsedO) : \A ty \in SingleReadings(rawShows[i]) :
         /\ isSome(parsedO[i])
         /\ parsedO[i].value.start = ty[2] /\ parsedO[i].value.end = ty[2]
         /\ callsO[i] = SingleYearCalls
    /\ \A i \in 1..Len(parsedE) : \A ty \in SingleReadings(rawShows[i]) :
         /\ isRight(parsedE[i])
         /\ parsedE[i].right.start = ty[2] /\ parsedE[i].right.end = ty[2]
         /\ callsE[i] = SingleYearCalls

HasBracket(T) == \E i \in 1..Len(T) : T[i] \in {"(", ")"}

\* C3 amended: every raw string "<T> (<Y>)" without a hyphen and with no
\* bracket inside T is parsed, by the Option and by the Either parseShow, to
\* {title: T, start: Y, end: Y}, both years coming from extractSingleYear
\* after the range extractor failed.
C3_PlainTitle ==
    /\ \A i \in 1..Len(parsedO) : \A ty \in SingleReadings(rawShows[i]) :
         ~HasBracket(ty[1]) =>
           /\ parsedO[i] = some(TvShow(ty[1], ty[2], ty[2]))
           /\ callsO[i] = SingleYearCalls
    /\ \A i \in 1..Len(parsedE) : \A ty \in SingleReadings(rawShows[i]) :
         ~HasBracket(ty[1]) =>
           /\ parsedE[i] = right(TvShow(ty[1], ty[2], ty[2]))
           /\ callsE[i] = SingleYearCalls

\* both programs have parsed a single-year record with a one-digit year
C3_Witness ==
    /\ Len(parsedO) >= 1 /\ Len(parsedE) >= 1
    /\ \E ty \in SingleReadings(rawShows[1]) :
         ~HasBracket(ty[1]) /\ Len(ty[1]) = 2 /\ ty[2].val = 2

Count(seq, x) == Cardinality({i \in 1..Len(seq) : seq[i] = x})

IsPermutation(as, bs) ==
    /\ Len(as) = Len(bs)
    /\ \A i \in 1..Len(as) : Count(as, as[i]) = Count(bs, as[i])

\* the records of period d, in their order in seq
OfPeriod(seq, d) ==
    LET HasPeriod(tvShow) == period(tvShow) = d
    IN SelectSeq(seq, HasPeriod)

Periods == {period(tvShow) : tvShow \in TvShows}

\* C4: the result of sortShows is a permutation of its input in which the
\* period (end - start) of every record is greater than or equal to the
\* period of the record behind it.
C4_Descending ==
    pcSort = "done" =>
      /\ IsPermutation(sorted, shows)
      /\ \A i \in 1..(Len(sorted) - 1) : period(sorted[i]) >= period(sorted[i + 1])

\* three records of three different periods, handed over in ascending order,
\* have been sorted
C4_Witness ==
    /\ pcSort = "done" /\ Len(shows) = 3
    /\ period(shows[1]) < period(shows[2]) /\ period(shows[2]) < period(shows[3])
    /\ sorted # shows

\* C5 as stated: sortShows is stable, the records of equal period stand in
\* the result in the order they had in the input.
C5_InputOrder ==
    pcSort = "done" => \A d \in Periods : OfPeriod(sorted, d) = OfPeriod(shows, d)

\* C5 amended: the records of equal period stand in the result of sortShows
\* in the reverse of the order they had in the input (the stable ascending
\* sort keeps their order and the final reverse turns it around).
C5_ReversedInputOrder ==
    pcSort = "done" =>
      \A d \in Periods : OfPeriod(sorted, d) = reverse(OfPeriod(shows, d))

\* two different records of equal period, with a longer one between them,
\* have been sorted
C5_Witness ==
    /\ pcSort = "done" /\ Len(shows) = 3
    /\ shows[1] # shows[3] /\ period(shows[1]) = period(shows[3])
    /\ period(shows[2]) > period(shows[1])

\* the records among the first n whose parse is a failure in the Either program
FailingE(n) == {i \in 1..n : FailsE(rawShows[i])}

First(S) == CHOOSE i \in S : \A j \in S : i <= j

\* C6: at every step of the Either fold, if a record folded so far fails, the
\* accumulator is the failure of the first failing record in input order,
\* with its diagnostic, whatever the records folded after it are.
C6_EarliestFailure ==
    FailingE(nE) # {} => accE = parseShowE(rawShows[First(FailingE(nE))]).out

\* three records are folded: two failures with different diagnostics, then a
\* success
C6_Witness ==
    /\ nE = 3
    /\ FailsE(rawShows[1]) /\ FailsE(rawShows[2]) /\ ~FailsE(rawShows[3])
    /\ parseShowE(rawShows[1]).out # parseShowE(rawShows[2]).out
    /\ accE = parseShowE(rawShows[1]).out

\* an optionally signed run of digits, white space around it allowed
IsIntegerLiteral(str) ==
    LET t == Trim(str)
    IN IsDigits(t) \/ (t # <<>> /\ t[1] = "-" /\ IsDigits(Tail(t)))

\* C7: whenever the slice an extractor selects is not an integer literal, the
\* extractor returns a failure (none / left), and no parseShow success
\* carries a year that is not a number.
C7_NonNumericFails ==
    /\ \A i \in 1..Len(parsedO) :
         LET rawShow == rawShows[i]
             startStr == yearStartStrO(rawShow)
             endStr == yearEndStrO(rawShow)
             singleStr == singleYearStrO(rawShow)
         IN /\ (isSome(startStr) /\ ~IsIntegerLiteral(startStr.value))
                  => ~isSome(extractYearStartO(rawShow))
            /\ (isSome(endStr) /\ ~IsIntegerLiteral(endStr.value))
                  => ~isSome(extractYearEndO(rawShow))
            /\ (isSome(singleStr) /\ ~IsIntegerLiteral(singleStr.value))
                  => ~isSome(extractSingleYearO(rawShow))
            /\ isSome(parsedO[i])
                  => ~parsedO[i].value.start.nan /\ ~parsedO[i].value.end.nan
    /\ \A i \in 1..Len(parsedE) :
         LET rawShow == rawShows[i]
             startStr == yearStartStrE(rawShow)
             endStr == yearEndStrE(rawShow)
             singleStr == singleYearStrE(rawShow)
         IN /\ (isRight(startStr) /\ ~IsIntegerLiteral(startStr.right))
                  => ~isRight(extractYearStartE(rawShow))
            /\ (isRight(endStr) /\ ~IsIntegerLiteral(endStr.right))
                  => ~isRight(extractYearEndE(rawShow))
            /\ (isRight(singleStr) /\ ~IsIntegerLiteral(singleStr.right))
                  => ~isRight(extractSingleYearE(rawShow))
            /\ isRight(parsedE[i])
                  => ~parsedE[i].right.start.nan /\ ~parsedE[i].right.end.nan

\* every call of extractSingleYear in calls comes directly behind the call of
\* a range extractor that failed on rawShow
FallbackAfterFailure(calls, startFailed, endFailed) ==
    \A j \in 1..Len(calls) :
      calls[j] = "extractSingleYear" =>
        /\ j > 1
        /\ \/ calls[j - 1] = "extractYearStart" /\ startFailed
           \/ calls[j - 1] = "extractYearEnd" /\ endFailed

\* C8: inside parseShow the fallback is lazy and the first success wins:
\* extractSingleYear is called only directly after a range extractor that
\* failed; when the range extractor succeeds the resolved year is its value;
\* when both fail the resolution fails as extractSingleYear does (in the
\* Either program with the single-year diagnostic as it is).
C8_LazyFallback ==
    /\ \A i \in 1..Len(parsedO) :
         LET rawShow == rawShows[i]
             start == extractYearStartO(rawShow)
             end == extractYearEndO(rawShow)
             single == extractSingleYearO(rawShow)
         IN /\ FallbackAfterFailure(callsO[i], ~isSome(start), ~isSome(end))
            /\ (isSome(parsedO[i]) /\ isSome(start))
                  => parsedO[i].value.start = start.value
            /\ (isSome(parsedO[i]) /\ isSome(end))
                  => parsedO[i].value.end = end.value
            /\ (isSome(extractTitleO(rawShow)) /\ ~isSome(start) /\ ~isSome(single))
                  => parsedO[i] = none
    /\ \A i \in 1..Len(parsedE) :
         LET rawShow == rawShows[i]
             start == extractYearStartE(rawShow)
             end == extractYearEndE(rawShow)
             single == extractSingleYearE(rawShow)
         IN /\ FallbackAfterFailure(callsE[i], ~isRight(start), ~isRight(end))
            /\ (isRight(parsedE[i]) /\ isRight(start))
                  => parsedE[i].right.start = start.right
            /\ (isRight(parsedE[i]) /\ isRight(end))
                  => parsedE[i].right.end = end.right
            /\ (isRight(extractTitleE(rawShow)) /\ ~isRight(start) /\ ~isRight(single))
                  => parsedE[i] = single
            /\ (isRight(extractTitleE(rawShow)) /\ isRight(start)
                  /\ ~isRight(end) /\ ~isRight(single))
                  => parsedE[i] = single

\* both programs have parsed a record whose start year comes from the range
\* extractor without a call of extractSingleYear, and whose end year fails
\* in both extractors
C8_Witness ==
    /\ Len(parsedO) >= 1 /\ Len(parsedE) >= 1
    /\ isRight(extractYearStartE(rawShows[1]))
    /\ callsE[1] = <<"extractTitle", "extractYearStart", "extractYearEnd",
                     "extractSingleYear">>
    /\ parsedE[1] = left(Diag("Cannot extract single year from: ", rawShows[1]))
    /\ callsO[1] = <<"extractTitle", "extractYearStart", "extractYearEnd">>

\* C9: parseShow evaluates title, start, end in this order and stops at the
\* first failure: without a '(' behind position 0 it fails after the single
\* call of extractTitle, in the Either program with the title diagnostic of
\* that raw string, whatever the years are; with a title and a failing start
\* resolution it fails with the start resolution's failure and the end year
\* is not attempted.
C9_FirstFailureDecides ==
    /\ \A i \in 1..Len(parsedO) :
         LET rawShow == rawShows[i]
         IN /\ IndexOf(rawShow, "(") <= 0
                  => parsedO[i] = none /\ callsO[i] = <<"extractTitle">>
            /\ (/\ IndexOf(rawShow, "(") > 0
                /\ ~isSome(extractYearStartO(rawShow))
                /\ ~isSome(extractSingleYearO(rawShow)))
                  => /\ parsedO[i] = none
                     /\ callsO[i] = <<"extractTitle", "extractYearStart",
                                      "extractSingleYear">>
    /\ \A i \in 1..Len(parsedE) :
         LET rawShow == rawShows[i]
         IN /\ IndexOf(rawShow, "(") <= 0
                  => /\ parsedE[i] = left(Diag("Cannot extract title from: ", rawShow))
                     /\ callsE[i] = <<"extractTitle">>
            /\ (/\ IndexOf(rawShow, "(") > 0
                /\ ~isRight(extractYearStartE(rawShow))
                /\ ~isRight(extractSingleYearE(rawShow)))
                  => /\ parsedE[i] = extractSingleYearE(rawShow)
                     /\ callsE[i] = <<"extractTitle", "extractYearStart",
                                      "extractSingleYear">>

\* the Either program has parsed a record with '(' at position 0 whose years
\* both extract, and the result is the title diagnostic
C9_Witness ==
    /\ Len(parsedE) >= 1
    /\ IndexOf(rawShows[1], "(") = 0
    /\ isRight(extractYearStartE(rawShows[1]))
    /\ isRight(extractYearEndE(rawShows[1]))
    /\ parsedE[1] = left(Diag("Cannot extract title from: ", rawShows[1]))
    /\ callsE[1] = <<"extractTitle">>

\* an Option outcome and an Either outcome are both failures, or both
\* successes of the same value
SameOutcome(o, e) ==
    /\ isSome(o) <=> isRight(e)
    /\ (isSome(o) /\ isRight(e)) => o.value = e.right

\* C10: one delimiter rule in both programs: on every raw string that both
\* have parsed, the Option and the Either extractYearStart agree (both fail,
\* or both give the same year), so do the two extractYearEnd, and so do the
\* two parseShow.
C10_SameRule ==
    \A i \in 1..Min(Len(parsedO), Len(parsedE)) :
      /\ SameOutcome(extractYearStartO(rawShows[i]), extractYearStartE(rawShows[i]))
      /\ SameOutcome(extractYearEndO(rawShows[i]), extractYearEndE(rawShows[i]))
      /\ SameOutcome(parsedO[i], parsedE[i])

\* the characters of rawShow in front of its first '(', trimmed
TrimmedPrefix(rawShow) == Trim(Slice(rawShow, 0, IndexOf(rawShow, "(")))

\* C11: on every raw string extractTitle succeeds exactly when the first '('
\* stands at a position > 0, and the title is then all the characters in
\* front of that '(' with the white space around them trimmed, none of the
\* others dropped; a parseShow success carries that title.
C11_TitleIsPrefix ==
    /\ \A i \in 1..Len(parsedO) :
         LET rawShow == rawShows[i]
             title == extractTitleO(rawShow)
         IN /\ isSome(title) <=> IndexOf(rawShow, "(") > 0
            /\ isSome(title) => title.value = TrimmedPrefix(rawShow)
            /\ isSome(parsedO[i]) => parsedO[i].value.title = TrimmedPrefix(rawShow)
    /\ \A i \in 1..Len(parsedE) :
         LET rawShow == rawShows[i]
             title == extractTitleE(rawShow)
         IN /\ isRight(title) <=> IndexOf(rawShow, "(") > 0
            /\ isRight(title) => title.right = TrimmedPrefix(rawShow)
            /\ isRight(parsedE[i]) => parsedE[i].right.title = TrimmedPrefix(rawShow)

====
